---- MODULE Spec2Model ----
(***************************************************************************)
(* The legacy-message normalizer of WoltLabSuite/Core                      *)
(* (normalizeLegacyMessage, Setup.ts lines 68-183) as a state machine.     *)
(*                                                                         *)
(* The markup held by the element is a sequence of nested node records     *)
(* [tag, filler, kids]; the working tree `div` is a sequence of node       *)
(* records indexed by node id (node 1 is the DIV), `kids` holding ids, so  *)
(* that the NodeList snapshots and the paragraph list keep node identity   *)
(* while the tree is mutated.                                              *)
(***************************************************************************)
EXTENDS Integers, Sequences, FiniteSets

VARIABLES kind, value, input, div, snapshot, brs, j, paragraphs, i, offset,
          pc, calls, error

vars == <<kind, value, input, div, snapshot, brs, j, paragraphs, i, offset,
          pc, calls, error>>

(* ------------------------------ bounds -------------------------------- *)

\* longest sequence of top-level blocks in the run inputs
MaxRun == 5

\* most child nodes of the container in the content inputs
MaxKids == 3

\* deepest nesting of inline wrappers around a marker in the wrapper inputs
MaxDepth == 3

\* calls of normalizeLegacyMessage on the same element
MaxCalls == 2

(* ------------------------------ markup -------------------------------- *)

TEXT == "#text"

El(t, ks) == [tag |-> t, filler |-> FALSE, kids |-> ks]

Text == El(TEXT, <<>>)

Br(f) == [tag |-> "BR", filler |-> f, kids |-> <<>>]

Img == El("IMG", <<>>)

Cell(ks) == El("TABLE", <<El("TBODY", <<El("TR", <<El("TD", ks)>>)>>)>>)

RECURSIVE Wrap(_, _)
Wrap(tags, x) ==
  IF tags = <<>> THEN x ELSE El(Head(tags), <<Wrap(Tail(tags), x)>>)

\* the tags unwrapBr recognizes, in the order of its switch
InlineTagSeq == <<"B", "DEL", "EM", "I", "STRONG", "SUB", "SUP", "SPAN", "U">>

InlineTags == {"B", "DEL", "EM", "I", "STRONG", "SUB", "SUP", "SPAN", "U"}

\* the switch with one case label lost
IsInlineWrapperNoSpan(t) == t \in InlineTags \ {"SPAN"}

IsInlineWrapper(t) == t \in InlineTags

BlockTags == {"P", "TD"}

(* ------------------------ parser and serializer ----------------------- *)

RECURSIVE Size(_)
RECURSIVE SizeSeq(_)
Size(n) == 1 + SizeSeq(n.kids)
SizeSeq(s) == IF s = <<>> THEN 0 ELSE Size(Head(s)) + SizeSeq(Tail(s))

RECURSIVE ChildIds(_, _)
ChildIds(s, id) ==
  IF s = <<>> THEN <<>> ELSE <<id>> \o ChildIds(Tail(s), id + Size(Head(s)))

RECURSIVE Flat(_, _)
RECURSIVE FlatSeq(_, _)
Flat(n, id) ==
  <<[tag |-> n.tag, filler |-> n.filler, kids |-> ChildIds(n.kids, id + 1)]>>
    \o FlatSeq(n.kids, id + 1)
FlatSeq(s, id) ==
  IF s = <<>> THEN <<>>
  ELSE Flat(Head(s), id) \o FlatSeq(Tail(s), id + Size(Head(s)))

\* div.innerHTML = markup: node 1 is the DIV, the others numbered in
\* document order
Parse(markup) == Flat(El("DIV", markup), 1)

RECURSIVE SerializeNode(_, _)
RECURSIVE SerializeSeq(_, _)
SerializeNode(d, n) ==
  [tag |-> d[n].tag, filler |-> d[n].filler, kids |-> SerializeSeq(d, d[n].kids)]
\* adjacent text nodes serialize to one run of characters
SerializeSeq(d, s) ==
  IF s = <<>> THEN <<>>
  ELSE IF Len(s) >= 2 /\ d[s[1]].tag = TEXT /\ d[s[2]].tag = TEXT
       THEN SerializeSeq(d, Tail(s))
       ELSE <<SerializeNode(d, s[1])>> \o SerializeSeq(d, Tail(s))

\* div.innerHTML read back
Serialize(d) == SerializeSeq(d, d[1].kids)

(* ------------------------------ the DOM ------------------------------- *)

Nodes(d) == 1..Len(d)

Range(s) == {s[k] : k \in 1..Len(s)}

IndexOf(s, x) == CHOOSE k \in 1..Len(s) : s[k] = x

Without(s, x) == SelectSeq(s, LAMBDA y : y # x)

\* 0 stands for null
parentNode(d, n) ==
  IF \E p \in Nodes(d) : n \in Range(d[p].kids)
  THEN CHOOSE p \in Nodes(d) : n \in Range(d[p].kids)
  ELSE 0

previousSibling(d, n) ==
  LET p == parentNode(d, n) IN
  IF p = 0 THEN 0
  ELSE LET k == IndexOf(d[p].kids, n) IN IF k = 1 THEN 0 ELSE d[p].kids[k - 1]

nextSibling(d, n) ==
  LET p == parentNode(d, n) IN
  IF p = 0 THEN 0
  ELSE LET k == IndexOf(d[p].kids, n) IN
       IF k = Len(d[p].kids) THEN 0 ELSE d[p].kids[k + 1]

IsElement(d, n) == d[n].tag # TEXT

children(d, n) == SelectSeq(d[n].kids, LAMBDA c : IsElement(d, c))

nextElementSibling(d, n) ==
  LET p == parentNode(d, n) IN
  IF p = 0 THEN 0
  ELSE LET ks == d[p].kids
           k == IndexOf(ks, n)
           after == {m \in (k + 1)..Len(ks) : IsElement(d, ks[m])} IN
       IF after = {} THEN 0
       ELSE ks[CHOOSE m \in after : \A m2 \in after : m <= m2]

RECURSIVE contains(_, _)
\* whether n is still in the tree under the DIV
contains(d, n) ==
  \/ n = 1
  \/ /\ parentNode(d, n) # 0
     /\ contains(d, parentNode(d, n))

remove(d, n) ==
  LET p == parentNode(d, n) IN
  IF p = 0 THEN d ELSE [d EXCEPT ![p].kids = Without(@, n)]

\* the one element of a singleton set; {F(x) : x \in {e}} evaluates e once
The(S) == CHOOSE x \in S : TRUE

\* n put right after ref among the children of ref's parent
placeAfter(d, ref, n) ==
  LET p == parentNode(d, ref)
      ks == d[p].kids
      k == IndexOf(ks, ref) IN
  [d EXCEPT ![p].kids = SubSeq(ks, 1, k) \o <<n>> \o SubSeq(ks, k + 1, Len(ks))]

\* ref.insertAdjacentElement("afterend", n): n leaves its old place
insertAfter(d, ref, n) ==
  IF parentNode(d, ref) = 0 THEN d
  ELSE The({placeAfter(d1, ref, n) : d1 \in {remove(d, n)}})

RECURSIVE closest(_, _)
\* n.closest("p, td")
closest(d, n) ==
  IF n = 0 THEN 0
  ELSE IF d[n].tag \in BlockTags THEN n
  ELSE closest(d, parentNode(d, n))

RECURSIVE Preorder(_, _)
RECURSIVE PreorderSeq(_, _)
Preorder(d, n) == <<n>> \o PreorderSeq(d, d[n].kids)
PreorderSeq(d, s) ==
  IF s = <<>> THEN <<>> ELSE Preorder(d, Head(s)) \o PreorderSeq(d, Tail(s))

\* div.querySelectorAll(tag): a static list in document order
querySelectorAll(d, t) ==
  SelectSeq(PreorderSeq(d, d[1].kids), LAMBDA n : d[n].tag = t)

RECURSIVE isAtNodeEnd(_, _, _)
\* Dom/Util.isAtNodeEnd: nothing follows n inside ancestor
isAtNodeEnd(d, n, ancestor) ==
  \/ n = ancestor
  \/ /\ nextSibling(d, n) = 0
     /\ parentNode(d, n) # 0
     /\ isAtNodeEnd(d, parentNode(d, n), ancestor)

(* ----------------------------- normalizeBr ---------------------------- *)

\* br.dataset.ckeFiller === "true"
IsFiller(d, br) == d[br].filler

\* the for(;;) loop of unwrapBr goes round once more
CanUnwrap(d, br) ==
  /\ previousSibling(d, br) = 0
  /\ nextSibling(d, br) = 0
  /\ parentNode(d, br) # 0
  /\ IsInlineWrapper(d[parentNode(d, br)].tag)

\* br.parentElement is null where the loop reads parent.tagName
UnwrapThrows(d, br) ==
  /\ previousSibling(d, br) = 0
  /\ nextSibling(d, br) = 0
  /\ parentNode(d, br) = 0

\* one round of the loop: the marker follows its parent, the parent goes
UnwrapOnce(d, br) ==
  LET parent == parentNode(d, br) IN
  The({remove(d1, parent) : d1 \in {insertAfter(d, parent, br)}})

\* the length test off by one
ShouldRemoveOffByOne(d, c) == d[c].tag = "TD" \/ Len(d[c].kids) >= 1

\* the last condition of removeTrailingBr
ShouldRemove(d, c) == d[c].tag = "TD" \/ Len(d[c].kids) > 1

removeTrailingBr(d, br) ==
  IF IsFiller(d, br) THEN d
  ELSE LET c == closest(d, br) IN
       IF c = 0 THEN d
       ELSE IF ~isAtNodeEnd(d, br, c) THEN d
       ELSE IF ShouldRemove(d, c) THEN remove(d, br)
       ELSE d

(* ----------------------- spacer scan and reducer ---------------------- *)

\* the filler test left out
IsSpacerAnyBr(d, p) ==
  /\ Len(children(d, p)) = 1
  /\ d[children(d, p)[1]].tag = "BR"

\* the filler test inverted
IsSpacerFillerOnly(d, p) ==
  /\ Len(children(d, p)) = 1
  /\ d[children(d, p)[1]].tag = "BR"
  /\ IsFiller(d, children(d, p)[1])

\* what getPossibleSpacerParagraphs collects: one element child, a marker
\* that is no filler

IsSpacer(d, p) ==
  /\ Len(children(d, p)) = 1
  /\ d[children(d, p)[1]].tag = "BR"
  /\ ~IsFiller(d, children(d, p)[1])

getPossibleSpacerParagraphs(d) ==
  SelectSeq(querySelectorAll(d, "P"), LAMBDA p : IsSpacer(d, p))

RECURSIVE SearchAdjacent(_, _, _, _)
\* the while loop of reduceSpacerParagraphs; k is the 0-based index i and
\* ps[k + 1] the candidate
SearchAdjacent(d, ps, k, off) ==
  IF k + off + 1 < Len(ps) /\ nextElementSibling(d, ps[k + 1]) = ps[k + off + 2]
  THEN SearchAdjacent(d, ps, k, off + 1)
  ELSE off

Ceil2(n) == (n + 1) \div 2

\* the two branches swapped
NumberOfParagraphsToRemoveSwapped(off) ==
  IF off % 2 = 1 THEN Ceil2(off) + 1 ELSE Ceil2(off)

NumberOfParagraphsToRemove(off) ==
  IF off % 2 = 1 THEN Ceil2(off) ELSE Ceil2(off) + 1

Min(a, b) == IF a < b THEN a ELSE b

\* paragraphs.slice(from, to), 0-based and end-exclusive
slice(ps, from, to) == SubSeq(ps, from + 1, Min(to, Len(ps)))

RECURSIVE removeAll(_, _)
removeAll(d, s) ==
  IF s = <<>> THEN d ELSE removeAll(remove(d, Head(s)), Tail(s))

(* ------------------------------ inputs -------------------------------- *)

SeqsUpTo(S, n) == UNION {[1..m -> S] : m \in 0..n}

NoAdjacentText(s) ==
  \A k \in 1..(Len(s) - 1) : ~(s[k] = Text /\ s[k + 1] = Text)

Spacer == El("P", <<Br(FALSE)>>)

\* a paragraph that is a spacer once its marker is unwrapped
WrappedSpacer == El("P", <<El("B", <<Br(FALSE)>>)>>)

RunBlocks == {Spacer, WrappedSpacer, Text, Img}

RunSeqs == {s \in SeqsUpTo(RunBlocks, MaxRun) : NoAdjacentText(s)}

RunInputs == RunSeqs \cup {<<Cell(s)>> : s \in RunSeqs}

Items == {Text, Br(FALSE), Br(TRUE), El("B", <<Br(FALSE)>>), Img}

Contents == {s \in SeqsUpTo(Items, MaxKids) : NoAdjacentText(s)}

ContentInputs ==
  {<<El("P", c)>> : c \in Contents}
    \cup {<<Cell(c)>> : c \in Contents}
    \cup {<<El("P", <<El("I", c)>>)>> : c \in Contents \ {<<>>}}
    \cup Contents

Chain(o, n) == [k \in 1..n |-> InlineTagSeq[((o + k - 1) % Len(InlineTagSeq)) + 1]]

Wrapped == {Wrap(Chain(o, n), Br(f)) : o \in 0..(Len(InlineTagSeq) - 1), n \in 1..MaxDepth, f \in BOOLEAN}

WrapInputs ==
  {<<w>> : w \in Wrapped}
    \cup {<<El("P", <<w>>)>> : w \in Wrapped}
    \cup {<<Cell(<<w>>)>> : w \in Wrapped}
    \cup {<<El("P", <<El("A", <<w>>)>>)>> : w \in Wrapped}

Inputs == RunInputs \cup ContentInputs \cup WrapInputs

Kinds == {"textarea", "input"}

(* ------------------------------ actions ------------------------------- *)

\* a test for any element that has a value
IsTextAreaOrInput(k) == k \in {"textarea", "input"}

\* element instanceof HTMLTextAreaElement
IsTextArea(k) == k = "textarea"

Init ==
  /\ kind \in Kinds
  /\ value \in Inputs
  /\ input = <<>>
  /\ div = <<>>
  /\ snapshot = <<>>
  /\ brs = <<>>
  /\ j = 1
  /\ paragraphs = <<>>
  /\ i = 0
  /\ offset = 0
  /\ pc = "idle"
  /\ calls = 0
  /\ error = FALSE

\* normalizeLegacyMessage on something that is no <textarea>
ThrowTypeError ==
  /\ pc = "idle"
  /\ calls < MaxCalls
  /\ ~IsTextArea(kind)
  /\ error' = TRUE
  /\ calls' = calls + 1
  /\ UNCHANGED <<kind, value, input, div, snapshot, brs, j, paragraphs, i,
                 offset, pc>>

\* the element is parsed into the div and normalizeBr takes its NodeList
Begin ==
  /\ pc = "idle"
  /\ calls < MaxCalls
  /\ IsTextArea(kind)
  /\ input' = value
  /\ div' = Parse(value)
  /\ snapshot' = div'
  /\ brs' = querySelectorAll(div', "BR")
  /\ j' = 1
  /\ paragraphs' = <<>>
  /\ i' = 0
  /\ offset' = 0
  /\ pc' = "normalizeBr"
  /\ UNCHANGED <<kind, value, calls, error>>

\* one round of the loop of unwrapBr(brs[j])
UnwrapBr ==
  /\ pc = "normalizeBr"
  /\ j <= Len(brs)
  /\ CanUnwrap(div, brs[j])
  /\ div' = UnwrapOnce(div, brs[j])
  /\ UNCHANGED <<kind, value, input, snapshot, brs, j, paragraphs, i, offset,
                 pc, calls, error>>

\* unwrapBr(brs[j]) leaves its loop and removeTrailingBr(brs[j]) runs, then
\* forEach goes on; a marker without siblings and without a parent element
\* makes parent.tagName throw, and the call ends before the value is written
RemoveTrailingBr ==
  /\ pc = "normalizeBr"
  /\ j <= Len(brs)
  /\ ~CanUnwrap(div, brs[j])
  /\ IF UnwrapThrows(div, brs[j])
     THEN /\ error' = TRUE
          /\ pc' = "idle"
          /\ calls' = calls + 1
          /\ UNCHANGED <<div, j>>
     ELSE /\ div' = removeTrailingBr(div, brs[j])
          /\ j' = j + 1
          /\ UNCHANGED <<pc, calls, error>>
  /\ UNCHANGED <<kind, value, input, snapshot, brs, paragraphs, i, offset>>

\* normalizeBr is through; getPossibleSpacerParagraphs(div)
Scan ==
  /\ pc = "normalizeBr"
  /\ j > Len(brs)
  /\ paragraphs' = getPossibleSpacerParagraphs(div)
  /\ snapshot' = div
  /\ i' = 0
  /\ pc' = "reduce"
  /\ UNCHANGED <<kind, value, input, div, brs, j, offset, calls, error>>

\* one round of the for loop of reduceSpacerParagraphs
ReduceStep ==
  /\ pc = "reduce"
  /\ i < Len(paragraphs)
  /\ LET off == SearchAdjacent(div, paragraphs, i, 0) IN
       /\ offset' = off
       /\ IF off = 0
          THEN /\ div' = remove(div, paragraphs[i + 1])
               /\ i' = i + 1
          ELSE /\ div' = removeAll(div,
                    slice(paragraphs, i, i + NumberOfParagraphsToRemove(off)))
               /\ i' = i + off + 1
  /\ UNCHANGED <<kind, value, input, snapshot, brs, j, paragraphs, pc, calls,
                 error>>

\* reduceSpacerParagraphs is through; element.value = div.innerHTML
Finish ==
  /\ pc = "reduce"
  /\ i >= Len(paragraphs)
  /\ value' = Serialize(div)
  /\ pc' = "idle"
  /\ calls' = calls + 1
  /\ UNCHANGED <<kind, input, div, snapshot, brs, j, paragraphs, i, offset,
                 error>>

Next ==
  \/ ThrowTypeError
  \/ Begin
  \/ UnwrapBr
  \/ RemoveTrailingBr
  \/ Scan
  \/ ReduceStep
  \/ Finish

Spec == Init /\ [][Next]_vars

\* the inputs with markers inside wrappers
WrapInit == Init /\ value \in WrapInputs \cup ContentInputs

\* the call is one synchronous run: a step that can be taken is taken
FairSpec == WrapInit /\ [][Next]_vars /\ WF_vars(Next)

(* ------------------- what the properties speak about ------------------ *)

\* the nine inline wrappers, as the contract lists them
RecognizedWrappers == {"B", "DEL", "EM", "I", "STRONG", "SUB", "SUP", "SPAN", "U"}

Alone(d, n) == previousSibling(d, n) = 0 /\ nextSibling(d, n) = 0

RECURSIVE WrapperChain(_, _)
\* the recognized wrappers around n, nearest first
WrapperChain(d, n) ==
  LET p == parentNode(d, n) IN
  IF p # 0 /\ d[p].tag \in RecognizedWrappers
  THEN <<p>> \o WrapperChain(d, p)
  ELSE <<>>

\* n sits inside recognized wrappers only, nothing beside it or them
NestedAlone(d, n) ==
  /\ WrapperChain(d, n) # <<>>
  /\ Alone(d, n)
  /\ \A w \in Range(WrapperChain(d, n)) : Alone(d, w)

\* the nearest ancestor that is no recognized wrapper
AnchorOf(d, n) ==
  LET ch == WrapperChain(d, n) IN parentNode(d, ch[Len(ch)])

RECURSIVE Ancestors(_, _)
Ancestors(d, n) ==
  LET p == parentNode(d, n) IN IF p = 0 THEN {} ELSE {p} \cup Ancestors(d, p)

FillerMarkers(d) == {n \in Nodes(d) : d[n].tag = "BR" /\ d[n].filler}

\* the forEach of normalizeBr has handled every marker
BrPassOver == pc = "normalizeBr" /\ j > Len(brs)

\* the loop of unwrapBr has been left for brs[j]
UnwrapLeft == pc = "normalizeBr" /\ j <= Len(brs) /\ ~CanUnwrap(div, brs[j])

\* the for loop of reduceSpacerParagraphs has been left
ReducerOver == pc = "reduce" /\ i >= Len(paragraphs)

\* the scanned paragraphs; `snapshot` is the tree the scan saw
Scanned == Range(paragraphs)

IsRunStart(p) ==
  /\ p \in Scanned
  /\ ~\E q \in Scanned : nextElementSibling(snapshot, q) = p

RECURSIVE RunFrom(_)
\* the maximal run of adjacent scanned paragraphs that starts at p
RunFrom(p) ==
  LET n == nextElementSibling(snapshot, p) IN
  IF n \in Scanned THEN <<p>> \o RunFrom(n) ELSE <<p>>

Survivors(run) == SelectSeq(run, LAMBDA p : contains(div, p))

RECURSIVE ChainFrom(_)
\* how many entries after the 0-based entry k follow, each the next element
\* sibling of the entry before it
ChainFrom(k) ==
  IF /\ k + 1 < Len(paragraphs)
     /\ nextElementSibling(snapshot, paragraphs[k + 1]) = paragraphs[k + 2]
  THEN 1 + ChainFrom(k + 1)
  ELSE 0

\* something in tree d that a normalization deletes or moves: a spacer
\* paragraph, a marker that is the only child of a recognized wrapper, or a
\* non-filler marker that ends its cell or its paragraph of several nodes
Reducible(d) ==
  \/ \E p \in Nodes(d) :
       /\ contains(d, p)
       /\ d[p].tag = "P"
       /\ Len(children(d, p)) = 1
       /\ d[children(d, p)[1]].tag = "BR"
       /\ ~d[children(d, p)[1]].filler
  \/ \E b \in Nodes(d) :
       /\ contains(d, b)
       /\ d[b].tag = "BR"
       /\ \/ Alone(d, b) /\ d[parentNode(d, b)].tag \in RecognizedWrappers
          \/ /\ ~d[b].filler
             /\ closest(d, b) # 0
             /\ isAtNodeEnd(d, b, closest(d, b))
             /\ \/ d[closest(d, b)].tag = "TD"
                \/ Len(d[closest(d, b)].kids) > 1

(* ----------------------------- properties ----------------------------- *)

\* C1: when the reducer is through, of every maximal run of n adjacent
\* scanned spacer paragraphs exactly floor(n / 2) are still in the tree.
C1_RunHalved ==
  ReducerOver =>
    \A p \in Scanned :
      IsRunStart(p) => Len(Survivors(RunFrom(p))) = Len(RunFrom(p)) \div 2

\* a run of five has been reduced to two
C1_Witness ==
  /\ ReducerOver
  /\ \E p \in Scanned :
       /\ IsRunStart(p)
       /\ Len(RunFrom(p)) = 5
       /\ Len(Survivors(RunFrom(p))) = 2

\* C2: when the reducer is through, the survivors of every maximal run of n
\* adjacent spacer paragraphs are exactly its trailing floor(n / 2) members.
C2_TrailingSurvive ==
  ReducerOver =>
    \A p \in Scanned :
      IsRunStart(p) =>
        LET run == RunFrom(p)
            n == Len(run) IN
        Survivors(run) = SubSeq(run, n - (n \div 2) + 1, n)

\* C3: every paragraph the reducer deleted held nothing but one non-filler
\* marker, and every text node of the input is still in the tree.
C3_OnlyBareSpacersDeleted ==
  ReducerOver =>
    /\ \A p \in Scanned :
         ~contains(div, p) =>
           /\ snapshot[p].tag = "P"
           /\ Len(snapshot[p].kids) = 1
           /\ snapshot[snapshot[p].kids[1]].tag = "BR"
           /\ ~snapshot[snapshot[p].kids[1]].filler
    /\ \A n \in Nodes(div) : div[n].tag = TEXT => contains(div, n)

C5_FillerNotUnwrapped ==
  BrPassOver =>
    \A b \in FillerMarkers(div) :
      /\ parentNode(div, b) = parentNode(snapshot, b)
      /\ \A a \in Ancestors(snapshot, b) : contains(div, a)

\* C6: a filler marker of the input is in the tree in every state of the
\* call, so also after all three passes.
C6_FillerNeverDeleted ==
  \A b \in FillerMarkers(div) : contains(div, b)

\* the call is over and kept a filler marker that ends a paragraph of
\* several nodes
C6_Witness ==
  /\ pc = "idle"
  /\ calls > 0
  /\ \E b \in FillerMarkers(div) :
       /\ contains(div, b)
       /\ nextSibling(div, b) = 0
       /\ previousSibling(div, b) # 0
       /\ div[parentNode(div, b)].tag = "P"

\* C7: the step of removeTrailingBr on a non-filler marker that is the last
\* child of its nearest paragraph or cell removes it, unless that is a
\* paragraph with the marker as its only child.
C7_TrailingRemoval ==
  [][UnwrapLeft =>
       LET b == brs[j]
           c == closest(div, b) IN
       (/\ ~div[b].filler
        /\ c # 0
        /\ parentNode(div, b) = c
        /\ nextSibling(div, b) = 0)
       => (contains(div', b) <=> (div[c].tag = "P" /\ Len(div[c].kids) = 1))]_vars

\* the marker handled last ended a paragraph of several nodes and is gone
C7_Witness ==
  /\ pc = "normalizeBr"
  /\ j > 1
  /\ LET b == brs[j - 1] IN
       /\ ~div[b].filler
       /\ ~contains(div, b)
       /\ snapshot[parentNode(snapshot, b)].tag = "P"
       /\ Len(snapshot[parentNode(snapshot, b)].kids) >= 2
       /\ nextSibling(snapshot, b) = 0

\* C8: the pass of normalizeBr ends, and when the loop of unwrapBr is left
\* for a marker that was nested alone in recognized wrappers, the marker is a
\* child of the nearest ancestor that is no such wrapper and the wrappers
\* are out of the tree.
C8_UnwrapToAnchor ==
  /\ [](UnwrapLeft /\ NestedAlone(snapshot, brs[j]) =>
          /\ parentNode(div, brs[j]) = AnchorOf(snapshot, brs[j])
          /\ \A w \in Range(WrapperChain(snapshot, brs[j])) : ~contains(div, w))
  /\ (pc = "normalizeBr" ~> pc = "reduce")

\* a marker that was three wrappers deep has reached its anchor
C8_Witness ==
  /\ UnwrapLeft
  /\ NestedAlone(snapshot, brs[j])
  /\ Len(WrapperChain(snapshot, brs[j])) >= 3
  /\ parentNode(div, brs[j]) = AnchorOf(snapshot, brs[j])

\* C9: on anything but a textarea every call throws and nothing is parsed or
\* written; on a textarea no step throws and the step that ends the call
\* writes the serialized tree.
C9_TypeCheck ==
  [][/\ kind # "textarea" =>
          /\ error'
          /\ value' = value
          /\ div = <<>> /\ div' = <<>>
     /\ kind = "textarea" =>
          /\ ~error'
          /\ pc' = "idle" => value' = Serialize(div)]_vars

\* a call on an input element has thrown
C9_Witness ==
  /\ kind = "input"
  /\ calls > 0
  /\ error
  /\ value # <<>>
  /\ div = <<>>

\* C10: after a round of the reducer's loop that started at entry i, offset
\* is the number of following entries that are chained by next element
\* sibling, each to the entry before it.
C10_OffsetIsRunLength ==
  (pc = "reduce" /\ i > 0) => offset = ChainFrom(i - offset - 1)

====
